---- MODULE Spec2Model ----
(***************************************************************************)
(* Ingest scheduler of the DayQuest CDN node (src/worker.go): a discovery  *)
(* loop that lists the raw bucket on every tick and sends the listed       *)
(* objects on a bounded channel, a pool of workers that receive from the   *)
(* channel and run processVideo with retries, the video table of the       *)
(* catalog (database.DBHandler) and the raw, videos and failed buckets of  *)
(* the object store (MinioStorage).  processVideo is also followed         *)
(* statement by statement for one received key (ProcSpec): temp files,     *)
(* the two ffmpeg goroutines, deferred removals and the thumbnail upload.  *)
(***************************************************************************)
EXTENDS Integers, Sequences, FiniteSets, TLC

\* ---------------------------------------------------------------- bounds
NumKeys == 1            \* asset-keys that exist in the raw bucket
NumWorkers == 2         \* workerCount handed to NewVideoProcessor
MaxFaults == 3          \* failing store / catalog / encoder calls per run
MaxCleanup == 1         \* cleanup goroutines per key that have not run yet
MaxSize == 2            \* largest Size of an object of the videos bucket

\* ------------------------------------------------------ program constants
StatusUnknown == 0
StatusPending == 1
StatusProcessing == 2
StatusCompleted == 3
StatusFailed == 4
maxRetries == 3

Keys == 1..NumKeys
Workers == 1..NumWorkers
Statuses == {StatusUnknown, StatusPending, StatusProcessing, StatusCompleted, StatusFailed}
\* capacity of workChan: make(chan minio.ObjectInfo, vp.workerCount*2)
ChanCap == NumWorkers * 2

VARIABLES
    video,            \* catalog table: asset-key of each row -> status
    start,            \* the table and the videos bucket as found at start
    content,          \* per key: "good" (encoder accepts it) or "bad"
    rawVideosBucket,  \* per key: number of objects stored under the key
    videosBucket,
    failedBucket,
    processedFiles,   \* vp.processedFiles (keys of the sync.Map)
    workChan,         \* buffered channel, a sequence of keys
    dpc,              \* Start: "tick", "send", "wait" (wg.Wait), "returned"
    objects,          \* listing still to be sent in the current tick
    pc,               \* per worker: position in processWorker/processVideo,
                      \* "done" once processWorker has returned
    obj,              \* per worker: key received from workChan (0: none)
    retryCount,       \* per worker
    cleanup,          \* per key: spawned "delete from raw" goroutines
    faults,           \* failing calls the environment may still inject
    ctxDone,          \* the context handed to Start has been cancelled
    objectInfo,       \* videos bucket as StatVideo sees it: name -> Size
    req,              \* the HTTP request served last
    resp,             \* what the handler wrote to its ResponseWriter
    calls,            \* adapter calls the handler made, with their results
    buckets,          \* per bucket name: does it exist, has it the policy
    ensured,          \* per bucket name: result of the last ensureBucketExists
    thumbnailBucket,  \* per key: number of thumbnails stored for the key
    tmpFiles,         \* files in the temp directory: <<worker, attempt, kind>>
    attempts,         \* per worker: calls of processVideo since the receive
    compressErr,      \* per worker: "", "running", "nil" or "err"
    thumbnailErr,     \* per worker: "", "running", "nil" or "err"
    thumbUploads,     \* spawned uploadThumbnail goroutines: <<worker, attempt, key>>
    mainpc            \* main: "serving", "listenerDown", "closed" or "fatal"

vars == <<video, start, content, rawVideosBucket, videosBucket, failedBucket,
          processedFiles, workChan, dpc, objects, pc, obj, retryCount,
          cleanup, faults, ctxDone, objectInfo, req, resp, calls,
          buckets, ensured, thumbnailBucket, tmpFiles, attempts, compressErr,
          thumbnailErr, thumbUploads, mainpc>>

storeVars == <<rawVideosBucket, videosBucket, failedBucket>>
discVars == <<processedFiles, workChan, dpc, objects>>
constVars == <<start, content>>
apiVars == <<objectInfo, req, resp, calls>>
bucketVars == <<buckets, ensured>>
mainVars == <<mainpc>>
procVars == <<thumbnailBucket, tmpFiles, attempts, compressErr, thumbnailErr,
              thumbUploads>>

\* ------------------------------------------------------------- adapters

\* outcomes of one remote call: TRUE = the call goes through
Outcomes == IF faults > 0 THEN {TRUE, FALSE} ELSE {TRUE}
Spend(ok) == IF ok THEN faults ELSE faults - 1
\* a store call that is handed ctx: it fails once ctx is cancelled
CtxOutcomes == IF ctxDone THEN {FALSE} ELSE Outcomes
CtxSpend(ok) == IF ok \/ ctxDone THEN faults ELSE faults - 1

\* GetVideoStatus that answers Pending without error for a key without a row
GetVideoStatus_MissingRowPending(k, ok) ==
    IF ~ok THEN <<StatusUnknown, TRUE>>
    ELSE IF k \notin DOMAIN video THEN <<StatusPending, FALSE>>
    ELSE <<video[k], FALSE>>

\* DBHandler.GetVideoStatus: <<status, err>>
GetVideoStatus(k, ok) ==
    IF ~ok THEN <<StatusUnknown, TRUE>>
    ELSE IF k \notin DOMAIN video THEN <<StatusUnknown, TRUE>>
    ELSE <<video[k], FALSE>>

\* UpdateVideoStatus that counts only rows whose status changed, so that
\* writing the status a row already has is reported as "no video found"
UpdateErr_ChangedRowsOnly(k, s, ok) ==
    ~ok \/ k \notin DOMAIN video \/ video[k] = s

\* DBHandler.UpdateVideoStatus: err (TRUE) when the call fails or no row matched
UpdateErr(k, s, ok) == ~ok \/ k \notin DOMAIN video

\* UpdateVideoStatus that removes the row of a video it is told is Completed
UpdateVideoStatus_CompletedRemovesRow(k, s, ok) ==
    IF UpdateErr(k, s, ok) THEN video
    ELSE IF s = StatusCompleted THEN [j \in DOMAIN video \ {k} |-> video[j]]
    ELSE [video EXCEPT ![k] = s]

\* the UPDATE statement: the status of the row of k becomes s
UpdateVideoStatus(k, s, ok) ==
    IF UpdateErr(k, s, ok) THEN video ELSE [video EXCEPT ![k] = s]

\* MinioStorage.PutObject / DeleteObject on one bucket: a put replaces what
\* is stored under the key
PutObject(bucket, k) == [bucket EXCEPT ![k] = 1]
DeleteObject(bucket, k) == [bucket EXCEPT ![k] = 0]

\* MinioStorage.ListObjects: keys of the bucket in listing order
RECURSIVE ListFrom(_, _)
ListFrom(bucket, k) ==
    IF k > NumKeys THEN <<>>
    ELSE (IF bucket[k] > 0 THEN <<k>> ELSE <<>>) \o ListFrom(bucket, k + 1)
ListObjects(bucket) == ListFrom(bucket, 1)

\* compressAndConvertVideo: TRUE when ffmpeg exits 0
compressAndConvertVideo(k, ok) == ok /\ content[k] = "good"

\* ------------------------------------------------------------- HTTP names

\* A name in a URL or a bucket: a stem followed by extensions, e.g.
\* <<1, ".mp4", ".temp">> for "1.mp4.temp".
Names ==
    UNION { { <<k>>, <<k, ".mp4">>, <<k, ".temp">>, <<k, ".mp4", ".temp">> } :
            k \in Keys }
\* names an uploader gives to a file, which are the asset-keys
AssetNames == UNION { { <<k>>, <<k, ".mp4">> } : k \in Keys }

\* strings.HasSuffix / strings.TrimSuffix for an extension
HasSuffix(name, ext) == Len(name) > 1 /\ name[Len(name)] = ext
TrimSuffix(name, ext) ==
    IF HasSuffix(name, ext) THEN SubSeq(name, 1, Len(name) - 1) ELSE name

\* ----------------------------------------------------- fmt.Sscanf, Sprintf

\* text as a sequence of tokens: literal pieces and decimal integers
Lit(s) == [kind |-> "lit", s |-> s, n |-> 0]
Num(n) == [kind |-> "num", s |-> "", n |-> n]
Verb == [kind |-> "verb", s |-> "%d", n |-> 0]

\* fmt.Sscanf(input, format, ...): the values stored so far and whether the
\* scan stopped with an error (input exhausted, or input not matching)
RECURSIVE ScanFrom(_, _, _, _)
ScanFrom(input, format, i, vals) ==
    IF i > Len(format) THEN [err |-> FALSE, vals |-> vals]
    ELSE IF i > Len(input) THEN [err |-> TRUE, vals |-> vals]
    ELSE IF format[i].kind = "verb"
         THEN IF input[i].kind = "num"
              THEN ScanFrom(input, format, i + 1, Append(vals, input[i].n))
              ELSE [err |-> TRUE, vals |-> vals]
    ELSE IF input[i] = format[i]
         THEN ScanFrom(input, format, i + 1, vals)
         ELSE [err |-> TRUE, vals |-> vals]
Sscanf(input, format) == ScanFrom(input, format, 1, <<>>)

\* parseRangeHeader with the clamp of end left out
parseRangeHeader_EndNotClamped(rangeHeader, fileSize) ==
    IF rangeHeader = <<>> THEN <<0, fileSize - 1>>
    ELSE LET both == Sscanf(rangeHeader, <<Lit("bytes="), Verb, Lit("-"), Verb>>)
             open == Sscanf(rangeHeader, <<Lit("bytes="), Verb, Lit("-")>>)
             startEnd ==
                 IF ~both.err THEN <<both.vals[1], both.vals[2]>>
                 ELSE <<open.vals[1], fileSize - 1>>
         IN IF both.err /\ open.err THEN <<0, fileSize - 1>>
            ELSE <<IF startEnd[1] < 0 THEN 0 ELSE startEnd[1], startEnd[2]>>

\* parseRangeHeader(r, fileSize): <<start, end>>
parseRangeHeader(rangeHeader, fileSize) ==
    IF rangeHeader = <<>> THEN <<0, fileSize - 1>>
    ELSE LET both == Sscanf(rangeHeader, <<Lit("bytes="), Verb, Lit("-"), Verb>>)
             open == Sscanf(rangeHeader, <<Lit("bytes="), Verb, Lit("-")>>)
             startEnd ==
                 IF ~both.err THEN <<both.vals[1], both.vals[2]>>
                 ELSE <<open.vals[1], fileSize - 1>>
         IN IF both.err /\ open.err THEN <<0, fileSize - 1>>
            ELSE <<IF startEnd[1] < 0 THEN 0 ELSE startEnd[1],
                   IF startEnd[2] >= fileSize THEN fileSize - 1 ELSE startEnd[2]>>

\* ------------------------------------------------------ http.ResponseWriter

\* nothing written yet: no status line, no Content-Length, no Content-Range
NoResponse ==
    [code |-> 0, contentLength |-> <<>>, contentRange |-> <<>>,
     status |-> "", body |-> ""]
NoRequest == [handler |-> "", video |-> <<>>, Range |-> <<>>]

\* w.WriteHeader(code): only the first call sets the status line
WriteHeader(w, code) == IF w.code # 0 THEN w ELSE [w EXCEPT !.code = code]
\* w.Write: sends status 200 first if no status line was written
Write(w, body) == [WriteHeader(w, 200) EXCEPT !.body = body]
\* json.NewEncoder(w).Encode(map{"status": status, ...})
Encode(w, status) == [Write(w, "json") EXCEPT !.status = status]
\* http.Error(w, message, code)
Error(w, code) == Write(WriteHeader(w, code), "message")
\* http.Redirect(w, r, url, code)
Redirect(w, code) == Write(WriteHeader(w, code), "redirect")

\* the record of one adapter call
Call(fn, arg, err) == [fn |-> fn, arg |-> arg, err |-> err]

\* MinioStorage.StatVideo: err is "" (nil), "NotFound" or "Transport"; the
\* caller sees only whether err is nil
StatVideo(objectName, ok) ==
    IF ~ok THEN [err |-> "Transport", Size |-> 0]
    ELSE IF objectName \notin DOMAIN objectInfo THEN [err |-> "NotFound", Size |-> 0]
    ELSE [err |-> "", Size |-> objectInfo[objectName]]

\* the cause of the error DBHandler.GetVideoStatus returns
StatusErr(videoID, ok) ==
    IF ~ok THEN "Transport"
    ELSE IF videoID \notin DOMAIN video THEN "NotFound" ELSE ""

\* ---------------------------------------------------------- HTTP handlers

\* fmt.Sprintf("bytes %d-%d/%d", start, end, size), fmt.Sprintf("bytes */%d", size)
BytesRange(first, last, size) ==
    <<Lit("bytes "), Num(first), Lit("-"), Num(last), Lit("/"), Num(size)>>
BytesUnsatisfied(size) == <<Lit("bytes */"), Num(size)>>

Reply(w, c) == [resp |-> w, calls |-> c]

\* VideoHandler.GetVideoMetadata: the response and the adapter calls made
GetVideoMetadata(videoName, okDb, okStat) ==
    LET isTemp == HasSuffix(videoName, ".temp")
        baseVideoName == TrimSuffix(videoName, ".temp")
        statBase == isTemp /\ HasSuffix(baseVideoName, ".mp4")
        base == StatVideo(baseVideoName, okStat)
        calls1 == IF statBase
                  THEN <<Call("StatVideo", baseVideoName, base.err)>> ELSE <<>>
        videoID == TrimSuffix(TrimSuffix(videoName, ".temp"), ".mp4")
        st == GetVideoStatus(videoID, okDb)
        calls2 == Append(calls1, Call("GetVideoStatus", videoID,
                                      StatusErr(videoID, okDb)))
        info == StatVideo(videoName, okStat)
        calls3 == Append(calls2, Call("StatVideo", videoName, info.err))
    IN  IF statBase /\ base.err = ""
        THEN Reply(Encode(NoResponse, "completed"), calls1)
        ELSE IF st[2]
        THEN Reply(Encode(WriteHeader(NoResponse, 500), "error"), calls2)
        ELSE IF st[1] = StatusPending
        THEN Reply(Encode(WriteHeader(NoResponse, 202), "pending"), calls2)
        ELSE IF st[1] = StatusProcessing
        THEN Reply(Encode(WriteHeader(NoResponse, 202), "processing"), calls2)
        ELSE IF st[1] = StatusFailed
        THEN Reply(Encode(WriteHeader(NoResponse, 422), "failed"), calls2)
        ELSE IF st[1] = StatusUnknown
        THEN Reply(Encode(WriteHeader(NoResponse, 404), "not_found"), calls2)
        ELSE IF info.err # ""
        THEN Reply(Encode(WriteHeader(NoResponse, 404), "not_found"), calls3)
        ELSE Reply(Encode(NoResponse, "completed"), calls3)

\* StreamVideo for a name that ends in ".temp"
StreamTemp(videoName, okDb, okStat) ==
    LET baseVideoName == TrimSuffix(videoName, ".temp")
        statBase == HasSuffix(baseVideoName, ".mp4")
        base == StatVideo(baseVideoName, okStat)
        calls1 == IF statBase
                  THEN <<Call("StatVideo", baseVideoName, base.err)>> ELSE <<>>
        rawVideoName == TrimSuffix(baseVideoName, ".mp4")
        st == GetVideoStatus(rawVideoName, okDb)
        calls2 == Append(calls1, Call("GetVideoStatus", rawVideoName,
                                      StatusErr(rawVideoName, okDb)))
    IN  IF statBase /\ base.err = ""
        THEN Reply(Redirect(NoResponse, 307), calls1)
        ELSE IF ~st[2] /\ st[1] \in {StatusPending, StatusProcessing}
        THEN Reply(Encode(WriteHeader(NoResponse, 202), "processing"), calls2)
        ELSE IF ~st[2] /\ st[1] = StatusFailed
        THEN Reply(Encode(WriteHeader(NoResponse, 422), "failed"), calls2)
        ELSE Reply(Encode(WriteHeader(NoResponse, 404), "not_found"), calls2)

\* StreamVideo that leaves Content-Length at obj.Size when a range is served
StreamVideo_LengthOfObject(videoName, rangeHeader, okDb, okStat, okGet) ==
    IF HasSuffix(videoName, ".temp") THEN StreamTemp(videoName, okDb, okStat)
    ELSE
    LET info == StatVideo(videoName, okStat)
        calls1 == <<Call("StatVideo", videoName, info.err)>>
        w1 == [NoResponse EXCEPT !.contentLength = <<info.Size>>]
        se == parseRangeHeader(rangeHeader, info.Size)
        first == se[1]
        last == se[2]
        w2 == w1
        w3 == IF first > 0 \/ last < info.Size - 1
              THEN WriteHeader([w2 EXCEPT !.contentRange =
                                    BytesRange(first, last, info.Size)], 206)
              ELSE w2
        calls2 == Append(calls1, Call("GetVideo", videoName,
                                      IF okGet THEN "" ELSE "Transport"))
    IN  IF info.err # "" THEN Reply(Error(NoResponse, 404), calls1)
        ELSE IF first >= info.Size
        THEN Reply(Error([w1 EXCEPT !.contentRange =
                              BytesUnsatisfied(info.Size)], 416), calls1)
        ELSE IF ~okGet THEN Reply(Error(w3, 500), calls2)
        ELSE Reply(Write(w3, "object"), calls2)

\* VideoHandler.StreamVideo: the response and the adapter calls made
StreamVideo(videoName, rangeHeader, okDb, okStat, okGet) ==
    IF HasSuffix(videoName, ".temp") THEN StreamTemp(videoName, okDb, okStat)
    ELSE
    LET info == StatVideo(videoName, okStat)
        calls1 == <<Call("StatVideo", videoName, info.err)>>
        w1 == [NoResponse EXCEPT !.contentLength = <<info.Size>>]
        se == parseRangeHeader(rangeHeader, info.Size)
        first == se[1]
        last == se[2]
        w2 == [w1 EXCEPT !.contentLength = <<last - first + 1>>]
        w3 == IF first > 0 \/ last < info.Size - 1
              THEN WriteHeader([w2 EXCEPT !.contentRange =
                                    BytesRange(first, last, info.Size)], 206)
              ELSE w2
        calls2 == Append(calls1, Call("GetVideo", videoName,
                                      IF okGet THEN "" ELSE "Transport"))
    IN  IF info.err # "" THEN Reply(Error(NoResponse, 404), calls1)
        ELSE IF first >= info.Size
        THEN Reply(Error([w1 EXCEPT !.contentRange =
                              BytesUnsatisfied(info.Size)], 416), calls1)
        ELSE IF ~okGet THEN Reply(Error(w3, 500), calls2)
        ELSE Reply(Write(w3, "object"), calls2)

\* ------------------------------------------------------------------ Init

TypeOK ==
    /\ DOMAIN video \subseteq Keys
    /\ \A k \in DOMAIN video : video[k] \in Statuses
    /\ content \in [Keys -> {"good", "bad"}]
    /\ rawVideosBucket \in [Keys -> 0..1]
    /\ videosBucket \in [Keys -> 0..1]
    /\ failedBucket \in [Keys -> 0..1]
    /\ processedFiles \subseteq Keys
    /\ Len(workChan) <= ChanCap
    /\ dpc \in {"tick", "send", "wait", "returned"}
    /\ pc \in [Workers -> {"recv", "getStatus", "updProcessing", "download",
                           "transcode", "updFailed", "moveFailed", "upload",
                           "updCompleted", "retry", "done"}]
    /\ obj \in [Workers -> 0..NumKeys]
    /\ retryCount \in [Workers -> 0..maxRetries]
    /\ cleanup \in [Keys -> 0..MaxCleanup]
    /\ faults \in 0..MaxFaults
    /\ ctxDone \in BOOLEAN

\* What the uploader, or an earlier run that was interrupted, left behind:
\* every key is in raw; its row is absent, or Unknown/Pending as inserted, or
\* Processing from the interrupted run, which may already have uploaded the
\* transcoded file.
InitStore ==
    /\ content \in [Keys -> {"good", "bad"}]
    /\ rawVideosBucket = [k \in Keys |-> 1]
    /\ failedBucket = [k \in Keys |-> 0]
    /\ \E rows \in SUBSET Keys :
          video \in [rows -> {StatusUnknown, StatusPending, StatusProcessing}]
    /\ videosBucket \in [Keys -> 0..1]
    /\ \A k \in Keys : videosBucket[k] = 1 =>
          k \in DOMAIN video /\ video[k] = StatusProcessing /\ content[k] = "good"
    /\ start = [video |-> video, videosBucket |-> videosBucket]

\* NewVideoProcessor + the head of Start: workers started, channel empty
InitScheduler ==
    /\ processedFiles = {}
    /\ workChan = <<>>
    /\ dpc = "tick"
    /\ objects = <<>>
    /\ pc = [w \in Workers |-> "recv"]
    /\ obj = [w \in Workers |-> 0]
    /\ retryCount = [w \in Workers |-> 0]
    /\ cleanup = [k \in Keys |-> 0]
    /\ ctxDone = FALSE

\* no HTTP request is served while the scheduler is observed
ApiOff == objectInfo = <<>> /\ req = NoRequest /\ resp = NoResponse /\ calls = <<>>

\* the buckets NewMinioStorage ensures, by the field that names them
BucketNames ==
    {"videosBucket", "rawVideosBucket", "failedBucket", "thumbnailBucket",
     "profileImageBucket"}
\* NewMinioStorage has returned: every bucket exists, made with its policy
BucketsReady ==
    /\ buckets = [b \in BucketNames |-> [exists |-> TRUE, public |-> TRUE]]
    /\ ensured = [b \in BucketNames |-> "nil"]

\* main is past go processor.Start(ctx) and waits on the quit channel
MainServing == mainpc = "serving"

\* no processVideo has run: no thumbnail stored, no temp file, no goroutine
ProcOff ==
    /\ thumbnailBucket = [k \in Keys |-> 0]
    /\ tmpFiles = {}
    /\ attempts = [w \in Workers |-> 0]
    /\ compressErr = [w \in Workers |-> ""]
    /\ thumbnailErr = [w \in Workers |-> ""]
    /\ thumbUploads = {}

Init ==
    InitStore /\ InitScheduler /\ ApiOff /\ BucketsReady /\ ProcOff
    /\ MainServing /\ faults = MaxFaults

\* --------------------------------------------------------- discovery loop

\* Tick of a Start that gives up on a failed listing: close(workChan), wait
Tick_FailureStops ==
    /\ dpc = "tick"
    /\ \E ok \in CtxOutcomes :
          /\ faults' = CtxSpend(ok)
          /\ objects' = IF ok THEN ListObjects(rawVideosBucket) ELSE <<>>
          /\ dpc' = IF ~ok THEN "wait"
                    ELSE IF objects' = <<>> THEN "tick" ELSE "send"
    /\ UNCHANGED <<apiVars, bucketVars, procVars, mainVars, ctxDone, video, constVars, storeVars, processedFiles, workChan,
                   pc, obj, retryCount, cleanup>>

\* case <-ticker.C: list raw; a failed listing is dropped (continue)
Tick ==
    /\ dpc = "tick"
    /\ \E ok \in CtxOutcomes :
          /\ faults' = CtxSpend(ok)
          /\ objects' = IF ok THEN ListObjects(rawVideosBucket) ELSE <<>>
    /\ dpc' = IF objects' = <<>> THEN "tick" ELSE "send"
    /\ UNCHANGED <<apiVars, bucketVars, procVars, mainVars, ctxDone, video, constVars, storeVars, processedFiles, workChan,
                   pc, obj, retryCount, cleanup>>

\* Send with a default case in the select: a key the full channel cannot
\* take is dropped
Send_DropWhenFull ==
    /\ dpc = "send"
    /\ IF Head(objects) \in processedFiles \/ Len(workChan) >= ChanCap
       THEN UNCHANGED workChan
       ELSE workChan' = Append(workChan, Head(objects))
    /\ objects' = Tail(objects)
    /\ dpc' = IF objects' = <<>> THEN "tick" ELSE "send"
    /\ UNCHANGED <<apiVars, bucketVars, procVars, mainVars, ctxDone, video, constVars, storeVars, processedFiles,
                   pc, obj, retryCount, cleanup, faults>>

\* Send with the processedFiles test inverted: only keys the map holds are sent
Send_TestInverted ==
    /\ dpc = "send"
    /\ IF Head(objects) \notin processedFiles
       THEN UNCHANGED workChan
       ELSE /\ Len(workChan) < ChanCap
            /\ workChan' = Append(workChan, Head(objects))
    /\ objects' = Tail(objects)
    /\ dpc' = IF objects' = <<>> THEN "tick" ELSE "send"
    /\ UNCHANGED <<apiVars, bucketVars, procVars, mainVars, ctxDone, video, constVars, storeVars, processedFiles,
                   pc, obj, retryCount, cleanup, faults>>

\* for _, obj := range objects: skip what processedFiles holds, else send
Send ==
    /\ dpc = "send"
    /\ IF Head(objects) \in processedFiles
       THEN UNCHANGED workChan
       ELSE /\ Len(workChan) < ChanCap
            /\ workChan' = Append(workChan, Head(objects))
    /\ objects' = Tail(objects)
    /\ dpc' = IF objects' = <<>> THEN "tick" ELSE "send"
    /\ UNCHANGED <<apiVars, bucketVars, procVars, mainVars, ctxDone, video, constVars, storeVars, processedFiles,
                   pc, obj, retryCount, cleanup, faults>>

\* ---------------------------------------------------------- processWorker

\* the retry loop is left: the worker is back at the select on workChan
Exit(w) ==
    /\ pc' = [pc EXCEPT ![w] = "recv"]
    /\ obj' = [obj EXCEPT ![w] = 0]
    /\ retryCount' = [retryCount EXCEPT ![w] = 0]

\* retryCount++ followed by the loop condition retryCount < vp.maxRetries
NextAttempt(w) ==
    IF retryCount[w] + 1 < maxRetries
    THEN /\ retryCount' = [retryCount EXCEPT ![w] = retryCount[w] + 1]
         /\ pc' = [pc EXCEPT ![w] = "getStatus"]
         /\ UNCHANGED obj
    ELSE Exit(w)

Goto(w, l) ==
    /\ pc' = [pc EXCEPT ![w] = l]
    /\ UNCHANGED <<obj, retryCount>>

\* case obj, ok := <-workChan
Recv(w) ==
    /\ pc[w] = "recv"
    /\ workChan # <<>>
    /\ obj' = [obj EXCEPT ![w] = Head(workChan)]
    /\ workChan' = Tail(workChan)
    /\ retryCount' = [retryCount EXCEPT ![w] = 0]
    /\ pc' = [pc EXCEPT ![w] = "getStatus"]
    /\ UNCHANGED <<apiVars, bucketVars, procVars, mainVars, ctxDone, video, constVars, storeVars, processedFiles, dpc, objects,
                   cleanup, faults>>

\* status, err := vp.db.GetVideoStatus(obj.Key) and the two tests after it
GetStatus(w) ==
    /\ pc[w] = "getStatus"
    /\ \E ok \in Outcomes :
          /\ faults' = Spend(ok)
          /\ LET r == GetVideoStatus(obj[w], ok) IN
                IF r[2] THEN NextAttempt(w)
                ELSE IF r[1] = StatusUnknown THEN Exit(w)
                ELSE Goto(w, "updProcessing")
    /\ UNCHANGED <<apiVars, bucketVars, procVars, mainVars, ctxDone, video, constVars, storeVars, discVars, cleanup>>

\* retryCount++ after processVideo returned an error
Retry(w) ==
    /\ pc[w] = "retry"
    /\ NextAttempt(w)
    /\ UNCHANGED <<apiVars, bucketVars, procVars, mainVars, ctxDone, video, constVars, storeVars, discVars, cleanup, faults>>

\* ----------------------------------------------------------- processVideo

\* vp.db.UpdateVideoStatus(obj.Key, database.StatusProcessing)
UpdProcessing(w) ==
    /\ pc[w] = "updProcessing"
    /\ \E ok \in Outcomes :
          /\ faults' = Spend(ok)
          /\ video' = UpdateVideoStatus(obj[w], StatusProcessing, ok)
          /\ Goto(w, IF UpdateErr(obj[w], StatusProcessing, ok) THEN "retry" ELSE "download")
    /\ UNCHANGED <<apiVars, bucketVars, procVars, mainVars, ctxDone, constVars, storeVars, discVars, cleanup>>

\* vp.storage.GetObject(ctx, obj.Key, 0, -1) and io.Copy into the temp file
Download(w) ==
    /\ pc[w] = "download"
    /\ \E ok \in CtxOutcomes :
          /\ faults' = CtxSpend(ok)
          /\ Goto(w, IF ok /\ rawVideosBucket[obj[w]] > 0
                     THEN "transcode" ELSE "retry")
    /\ UNCHANGED <<apiVars, bucketVars, procVars, mainVars, ctxDone, video, constVars, storeVars, discVars, cleanup>>

\* compressAndConvertVideo(tmpPath), then the test of compressErr
Transcode(w) ==
    /\ pc[w] = "transcode"
    /\ \E ok \in Outcomes :
          /\ faults' = Spend(ok)
          /\ Goto(w, IF compressAndConvertVideo(obj[w], ok)
                     THEN "upload" ELSE "updFailed")
    /\ UNCHANGED <<apiVars, bucketVars, procVars, mainVars, ctxDone, video, constVars, storeVars, discVars, cleanup>>

\* err := vp.db.UpdateVideoStatus(obj.Key, database.StatusFailed)
UpdFailed(w) ==
    /\ pc[w] = "updFailed"
    /\ \E ok \in Outcomes :
          /\ faults' = Spend(ok)
          /\ video' = UpdateVideoStatus(obj[w], StatusFailed, ok)
    /\ Goto(w, "moveFailed")
    /\ UNCHANGED <<apiVars, bucketVars, procVars, mainVars, ctxDone, constVars, storeVars, discVars, cleanup>>

\* MoveFailed of a moveToFailedBucket that starts the deletion from raw
\* whether or not the copy to the failed bucket succeeded
MoveFailed_DeleteAlways(w) ==
    /\ pc[w] = "moveFailed"
    /\ cleanup[obj[w]] < MaxCleanup
    /\ cleanup' = [cleanup EXCEPT ![obj[w]] = @ + 1]
    /\ \E ok \in CtxOutcomes :
          /\ faults' = CtxSpend(ok)
          /\ IF ok /\ rawVideosBucket[obj[w]] > 0
             THEN failedBucket' = PutObject(failedBucket, obj[w])
             ELSE UNCHANGED failedBucket
    /\ Goto(w, "retry")
    /\ UNCHANGED <<apiVars, bucketVars, procVars, mainVars, ctxDone, video, constVars, rawVideosBucket, videosBucket, discVars>>

\* moveToFailedBucket: raw/key is streamed into failed/key and a goroutine
\* is spawned to delete raw/key; afterwards processVideo returns an error
MoveFailed(w) ==
    /\ pc[w] = "moveFailed"
    /\ \E ok \in CtxOutcomes :
          /\ faults' = CtxSpend(ok)
          /\ IF ok /\ rawVideosBucket[obj[w]] > 0
             THEN /\ cleanup[obj[w]] < MaxCleanup
                  /\ failedBucket' = PutObject(failedBucket, obj[w])
                  /\ cleanup' = [cleanup EXCEPT ![obj[w]] = @ + 1]
             ELSE UNCHANGED <<failedBucket, cleanup>>
    /\ Goto(w, "retry")
    /\ UNCHANGED <<apiVars, bucketVars, procVars, mainVars, ctxDone, video, constVars, rawVideosBucket, videosBucket, discVars>>

\* Upload of a processVideo that does not test the error of PutObject
Upload_ErrorIgnored(w) ==
    /\ pc[w] = "upload"
    /\ \E ok \in CtxOutcomes :
          /\ faults' = CtxSpend(ok)
          /\ cleanup[obj[w]] < MaxCleanup
          /\ videosBucket' = IF ok THEN PutObject(videosBucket, obj[w]) ELSE videosBucket
          /\ cleanup' = [cleanup EXCEPT ![obj[w]] = @ + 1]
          /\ Goto(w, "updCompleted")
    /\ UNCHANGED <<apiVars, bucketVars, procVars, mainVars, ctxDone, video, constVars, rawVideosBucket, failedBucket, discVars>>

\* vp.storage.PutObject(ctx, vp.storage.videosBucket, obj.Key, ...) and, when
\* it succeeded, the goroutine that will delete raw/key
Upload(w) ==
    /\ pc[w] = "upload"
    /\ \E ok \in CtxOutcomes :
          /\ faults' = CtxSpend(ok)
          /\ IF ok
             THEN /\ cleanup[obj[w]] < MaxCleanup
                  /\ videosBucket' = PutObject(videosBucket, obj[w])
                  /\ cleanup' = [cleanup EXCEPT ![obj[w]] = @ + 1]
                  /\ Goto(w, "updCompleted")
             ELSE /\ UNCHANGED <<videosBucket, cleanup>>
                  /\ Goto(w, "retry")
    /\ UNCHANGED <<apiVars, bucketVars, procVars, mainVars, ctxDone, video, constVars, rawVideosBucket, failedBucket, discVars>>

\* vp.db.UpdateVideoStatus(obj.Key, database.StatusCompleted); return nil
UpdCompleted(w) ==
    /\ pc[w] = "updCompleted"
    /\ \E ok \in Outcomes :
          /\ faults' = Spend(ok)
          /\ video' = UpdateVideoStatus(obj[w], StatusCompleted, ok)
          /\ IF UpdateErr(obj[w], StatusCompleted, ok)
             THEN Goto(w, "retry") ELSE Exit(w)
    /\ UNCHANGED <<apiVars, bucketVars, procVars, mainVars, ctxDone, constVars, storeVars, discVars, cleanup>>

\* go func() { vp.storage.DeleteObject(ctx, rawVideosBucket, obj.Key) }():
\* an error is only printed
Cleanup(k) ==
    /\ cleanup[k] > 0
    /\ cleanup' = [cleanup EXCEPT ![k] = @ - 1]
    /\ \E ok \in CtxOutcomes :
          /\ faults' = CtxSpend(ok)
          /\ rawVideosBucket' = IF ok THEN DeleteObject(rawVideosBucket, k)
                                ELSE rawVideosBucket
    /\ UNCHANGED <<apiVars, bucketVars, procVars, mainVars, ctxDone, video, constVars, videosBucket, failedBucket, discVars,
                   pc, obj, retryCount>>

\* ---------------------------------------------------------------- shutdown

\* cancel() in main, called when the process is asked to stop
Cancel ==
    /\ ~ctxDone
    /\ ctxDone' = TRUE
    /\ UNCHANGED <<apiVars, bucketVars, procVars, mainVars, video, constVars, storeVars, discVars, pc, obj, retryCount,
                   cleanup, faults>>

\* Start, outer select, case <-ctx.Done(): close(workChan), then wg.Wait()
StopAtTick ==
    /\ dpc = "tick"
    /\ ctxDone
    /\ dpc' = "wait"
    /\ UNCHANGED <<apiVars, bucketVars, procVars, mainVars, ctxDone, video, constVars, storeVars, processedFiles,
                   workChan, objects, pc, obj, retryCount, cleanup, faults>>

\* StopAtSend of a Start that sends without a select on ctx.Done(): the
\* cancellation is only seen once the send has room
StopAtSend_SendNotSelected ==
    /\ dpc = "send"
    /\ Head(objects) \notin processedFiles
    /\ Len(workChan) < ChanCap
    /\ ctxDone
    /\ dpc' = "wait"
    /\ UNCHANGED <<apiVars, bucketVars, procVars, mainVars, ctxDone, video, constVars, storeVars, processedFiles,
                   workChan, objects, pc, obj, retryCount, cleanup, faults>>

\* Start, select around the send, case <-ctx.Done(): close(workChan), then
\* wg.Wait(); the select is only reached for a key processedFiles lacks
StopAtSend ==
    /\ dpc = "send"
    /\ Head(objects) \notin processedFiles
    /\ ctxDone
    /\ dpc' = "wait"
    /\ UNCHANGED <<apiVars, bucketVars, procVars, mainVars, ctxDone, video, constVars, storeVars, processedFiles,
                   workChan, objects, pc, obj, retryCount, cleanup, faults>>

\* close(workChan) has been executed
Closed == dpc \in {"wait", "returned"}

\* processWorker returns: case <-ctx.Done(), or a receive from the closed
\* and drained channel (!ok); wg.Done() runs on return
WorkerDone(w) ==
    /\ pc[w] = "recv"
    /\ ctxDone \/ (Closed /\ workChan = <<>>)
    /\ pc' = [pc EXCEPT ![w] = "done"]
    /\ UNCHANGED <<apiVars, bucketVars, procVars, mainVars, ctxDone, video, constVars, storeVars, discVars, obj,
                   retryCount, cleanup, faults>>

\* Return of a Start that goes on with its loop after wg.Wait(): the next
\* ctx.Done case closes workChan a second time
Return_LoopsOn ==
    /\ dpc = "wait"
    /\ \A w \in Workers : pc[w] = "done"
    /\ dpc' = "tick"
    /\ UNCHANGED <<apiVars, bucketVars, procVars, mainVars, ctxDone, video, constVars, storeVars, processedFiles,
                   workChan, objects, pc, obj, retryCount, cleanup, faults>>

\* wg.Wait() returns when every worker has returned; then Start returns
Return ==
    /\ dpc = "wait"
    /\ \A w \in Workers : pc[w] = "done"
    /\ dpc' = "returned"
    /\ UNCHANGED <<apiVars, bucketVars, procVars, mainVars, ctxDone, video, constVars, storeVars, processedFiles,
                   workChan, objects, pc, obj, retryCount, cleanup, faults>>

\* ----------------------------------------------------------- specification

Next ==
    \/ Tick
    \/ Send
    \/ \E w \in Workers : Recv(w)
    \/ \E w \in Workers : GetStatus(w)
    \/ \E w \in Workers : Retry(w)
    \/ \E w \in Workers : UpdProcessing(w)
    \/ \E w \in Workers : Download(w)
    \/ \E w \in Workers : Transcode(w)
    \/ \E w \in Workers : UpdFailed(w)
    \/ \E w \in Workers : MoveFailed(w)
    \/ \E w \in Workers : Upload(w)
    \/ \E w \in Workers : UpdCompleted(w)
    \/ \E k \in Keys : Cleanup(k)

Spec == Init /\ [][Next]_vars

\* every step of processWorker and processVideo of one worker
Worker(w) ==
    \/ Recv(w) \/ GetStatus(w) \/ Retry(w) \/ UpdProcessing(w) \/ Download(w)
    \/ Transcode(w) \/ UpdFailed(w) \/ MoveFailed(w) \/ Upload(w)
    \/ UpdCompleted(w)

\* The run in which no store, catalog or encoder call fails, under the
\* scheduling the Go runtime gives: the ticker keeps firing, and every
\* goroutine that can take a step eventually takes one.
InitNoFaults ==
    InitStore /\ InitScheduler /\ ApiOff /\ BucketsReady /\ ProcOff
    /\ MainServing /\ faults = 0
Fairness ==
    /\ WF_vars(Tick)
    /\ WF_vars(Send)
    /\ \A w \in Workers : WF_vars(Worker(w))
    /\ \A k \in Keys : WF_vars(Cleanup(k))
LiveSpec == InitNoFaults /\ [][Next]_vars /\ Fairness

\* The scheduler together with the request to stop.  A select with several
\* ready cases takes any of them, so Tick, Send and Recv stay possible after
\* Cancel; a goroutine whose ctx.Done case stays ready eventually takes a step.
StopNext ==
    \/ Next
    \/ Cancel
    \/ StopAtTick
    \/ StopAtSend
    \/ \E w \in Workers : WorkerDone(w)
    \/ Return
StopFairness ==
    /\ WF_vars(Tick \/ Send \/ StopAtTick \/ StopAtSend \/ Return)
    /\ \A w \in Workers : WF_vars(Worker(w) \/ WorkerDone(w))
    /\ \A k \in Keys : WF_vars(Cleanup(k))
StopSpec == InitNoFaults /\ [][StopNext]_vars /\ StopFairness

\* ------------------------------------------------------------ main, stop

\* main after <-quit: cancel() (the action Cancel), srv.Shutdown, and the
\* deferred db.Close() that runs when main returns.  main does not wait for
\* Start; the goroutines go on until the process has ended.

\* srv.Shutdown(context.Background()); log.Fatalf on an error ends the
\* process without running the deferred db.Close()
ShutdownListener ==
    /\ mainpc = "serving"
    /\ ctxDone
    /\ \E ok \in BOOLEAN : mainpc' = IF ok THEN "listenerDown" ELSE "fatal"
    /\ UNCHANGED <<apiVars, bucketVars, procVars, ctxDone, video, constVars, storeVars,
                   discVars, pc, obj, retryCount, cleanup, faults>>

\* main returns: defer db.Close()
CloseCatalog ==
    /\ mainpc = "listenerDown"
    /\ mainpc' = "closed"
    /\ UNCHANGED <<apiVars, bucketVars, procVars, ctxDone, video, constVars, storeVars,
                   discVars, pc, obj, retryCount, cleanup, faults>>

MainNext ==
    \/ StopNext
    \/ ShutdownListener
    \/ CloseCatalog
MainSpec == InitNoFaults /\ [][MainNext]_vars

\* ---------------------------------------------------------------- HTTP API

\* Range headers a client may send: none, "bytes=a-b", "bytes=a-", and the
\* malformed "bytes=a", "bytes=" and "items=a-b"
Offsets == -1..(MaxSize + 1)
RangeHeaders ==
    {<<>>, <<Lit("bytes=")>>}
    \cup { <<Lit("bytes="), Num(a), Lit("-"), Num(b)>> : a \in Offsets, b \in Offsets }
    \cup { <<Lit("bytes="), Num(a), Lit("-")>> : a \in Offsets }
    \cup { <<Lit("bytes="), Num(a)>> : a \in Offsets }
    \cup { <<Lit("items="), Num(a), Lit("-"), Num(a)>> : a \in Offsets }

\* no request has been served
ApiIdle == req = NoRequest /\ resp = NoResponse /\ calls = <<>>

\* The two routes of the server, each serving one request as a whole.  The
\* handlers keep nothing between requests, so one request is observed.
HandleGetVideoMetadata ==
    /\ ApiIdle
    /\ \E name \in Names, okDb \in BOOLEAN, okStat \in BOOLEAN :
          LET r == GetVideoMetadata(name, okDb, okStat) IN
             /\ req' = [handler |-> "GetVideoMetadata", video |-> name, Range |-> <<>>]
             /\ resp' = r.resp
             /\ calls' = r.calls
    /\ UNCHANGED <<procVars, mainVars, video, constVars, storeVars, discVars, pc, obj, retryCount,
                   cleanup, faults, ctxDone, objectInfo, bucketVars>>

HandleStreamVideo ==
    /\ ApiIdle
    /\ \E name \in Names, h \in RangeHeaders,
          okDb \in BOOLEAN, okStat \in BOOLEAN, okGet \in BOOLEAN :
          LET r == StreamVideo(name, h, okDb, okStat, okGet) IN
             /\ req' = [handler |-> "StreamVideo", video |-> name, Range |-> h]
             /\ resp' = r.resp
             /\ calls' = r.calls
    /\ UNCHANGED <<procVars, mainVars, video, constVars, storeVars, discVars, pc, obj, retryCount,
                   cleanup, faults, ctxDone, objectInfo, bucketVars>>

\* The catalog and the videos bucket as a request may find them: any set of
\* rows and of objects under the asset-keys.  The scheduler is not running.
ApiInit ==
    /\ \E rows \in SUBSET AssetNames : video \in [rows -> Statuses]
    /\ \E objs \in SUBSET AssetNames : objectInfo \in [objs -> 0..MaxSize]
    /\ ApiIdle
    /\ BucketsReady
    /\ InitScheduler
    /\ ProcOff
    /\ MainServing
    /\ content = [k \in Keys |-> "good"]
    /\ rawVideosBucket = [k \in Keys |-> 0]
    /\ videosBucket = [k \in Keys |-> 0]
    /\ failedBucket = [k \in Keys |-> 0]
    /\ start = [video |-> <<>>, videosBucket |-> videosBucket]
    /\ faults = 0

ApiNext == HandleGetVideoMetadata \/ HandleStreamVideo
ApiSpec == ApiInit /\ [][ApiNext]_vars

\* ------------------------------------------------------------ start-up

\* MinioStorage.ensureBucketExists(ctx, b), called by NewMinioStorage at every
\* start of the process: BucketExists; for a missing bucket MakeBucket, then
\* SetBucketPolicy; the first failing call ends it with an error
ensureBucketExists(b) ==
    /\ \E fail \in {"", "BucketExists", "MakeBucket", "SetBucketPolicy"} :
          /\ fail # "" => faults > 0
          /\ fail \in {"MakeBucket", "SetBucketPolicy"} => ~buckets[b].exists
          /\ faults' = IF fail = "" THEN faults ELSE faults - 1
          /\ IF fail = "BucketExists"
             THEN buckets' = buckets /\ ensured' = [ensured EXCEPT ![b] = "err"]
             ELSE IF buckets[b].exists
             THEN buckets' = buckets /\ ensured' = [ensured EXCEPT ![b] = "nil"]
             ELSE IF fail = "MakeBucket"
             THEN buckets' = buckets /\ ensured' = [ensured EXCEPT ![b] = "err"]
             ELSE IF fail = "SetBucketPolicy"
             THEN /\ buckets' = [buckets EXCEPT ![b].exists = TRUE]
                  /\ ensured' = [ensured EXCEPT ![b] = "err"]
             ELSE /\ buckets' = [buckets EXCEPT ![b] = [exists |-> TRUE, public |-> TRUE]]
                  /\ ensured' = [ensured EXCEPT ![b] = "nil"]
    /\ UNCHANGED <<procVars, mainVars, video, constVars, storeVars, discVars, pc, obj, retryCount,
                   cleanup, ctxDone, apiVars>>

\* The object store as the first start may find it: each bucket missing, or
\* made with its policy by an earlier start.  Nothing else is running.
BucketInit ==
    /\ buckets \in [BucketNames -> {[exists |-> FALSE, public |-> FALSE],
                                   [exists |-> TRUE, public |-> TRUE]}]
    /\ ensured = [b \in BucketNames |-> ""]
    /\ faults = MaxFaults
    /\ ApiOff
    /\ InitScheduler
    /\ ProcOff
    /\ MainServing
    /\ video = <<>>
    /\ content = [k \in Keys |-> "good"]
    /\ rawVideosBucket = [k \in Keys |-> 0]
    /\ videosBucket = [k \in Keys |-> 0]
    /\ failedBucket = [k \in Keys |-> 0]
    /\ start = [video |-> <<>>, videosBucket |-> videosBucket]

BucketNext == \E b \in BucketNames : ensureBucketExists(b)
BucketSpec == BucketInit /\ [][BucketNext]_vars

\* ------------------------------------------------- one key, step by step

\* processWorker and processVideo followed statement by statement for one
\* received key: the temp files, the two ffmpeg goroutines and wg.Wait, the
\* deferred removals, and the goroutine that uploads the thumbnail.

\* what these steps leave alone
procFrame ==
    <<apiVars, bucketVars, mainVars, ctxDone, constVars, processedFiles, dpc, objects>>

\* tmpPath, tmpPath + "-compressed.mp4" and the .jpg made from tmpPath
FileKinds == {"input", "compressed", "thumbnail"}
\* os.CreateTemp gives every call of processVideo a name of its own
File(w, kind) == <<w, attempts[w], kind>>
FilesOf(w, kinds) == {File(w, kind) : kind \in kinds}

\* the defer os.Remove calls registered once line 183 has been passed
AllDefers(w) ==
    {"input", "compressed"}
        \cup (IF thumbnailErr[w] = "nil" THEN {"thumbnail"} ELSE {})

\* the worker is inside processVideo
ProcLabels ==
    {"updProcessing", "createTemp", "getObject", "wait", "updFailed",
     "moveFailed", "upload", "updCompleted"}

\* case obj, ok := <-workChan; retryCount := 0
Dequeue(w) ==
    /\ pc[w] = "recv"
    /\ workChan # <<>>
    /\ obj' = [obj EXCEPT ![w] = Head(workChan)]
    /\ workChan' = Tail(workChan)
    /\ retryCount' = [retryCount EXCEPT ![w] = 0]
    /\ attempts' = [attempts EXCEPT ![w] = 0]
    /\ pc' = [pc EXCEPT ![w] = "getStatus"]
    /\ UNCHANGED <<procFrame, video, storeVars, cleanup, faults, thumbnailBucket,
                   tmpFiles, compressErr, thumbnailErr, thumbUploads>>

\* ReadStatus of a processWorker that does not test the error of the read
ReadStatus_ErrorIgnored(w) ==
    /\ pc[w] = "getStatus"
    /\ \E ok \in Outcomes :
          /\ faults' = Spend(ok)
          /\ LET r == GetVideoStatus(obj[w], ok) IN
                IF ~r[2] /\ r[1] = StatusUnknown THEN Exit(w) /\ UNCHANGED attempts
                ELSE /\ Goto(w, "updProcessing")
                     /\ attempts' = [attempts EXCEPT ![w] = @ + 1]
    /\ UNCHANGED <<procFrame, video, storeVars, workChan, cleanup, thumbnailBucket,
                   tmpFiles, compressErr, thumbnailErr, thumbUploads>>

\* status, err := vp.db.GetVideoStatus(obj.Key), the two tests after it and
\* the call of processVideo
ReadStatus(w) ==
    /\ pc[w] = "getStatus"
    /\ \E ok \in Outcomes :
          /\ faults' = Spend(ok)
          /\ LET r == GetVideoStatus(obj[w], ok) IN
                IF r[2] THEN NextAttempt(w) /\ UNCHANGED attempts
                ELSE IF r[1] = StatusUnknown THEN Exit(w) /\ UNCHANGED attempts
                ELSE /\ Goto(w, "updProcessing")
                     /\ attempts' = [attempts EXCEPT ![w] = @ + 1]
    /\ UNCHANGED <<procFrame, video, storeVars, workChan, cleanup, thumbnailBucket,
                   tmpFiles, compressErr, thumbnailErr, thumbUploads>>

\* MarkProcessing of a processVideo that does not test the error of the write
MarkProcessing_ErrorIgnored(w) ==
    /\ pc[w] = "updProcessing"
    /\ \E ok \in Outcomes :
          /\ faults' = Spend(ok)
          /\ video' = UpdateVideoStatus(obj[w], StatusProcessing, ok)
          /\ Goto(w, "createTemp")
    /\ UNCHANGED <<procFrame, storeVars, workChan, cleanup, procVars>>

\* err := vp.db.UpdateVideoStatus(obj.Key, database.StatusProcessing)
MarkProcessing(w) ==
    /\ pc[w] = "updProcessing"
    /\ \E ok \in Outcomes :
          /\ faults' = Spend(ok)
          /\ video' = UpdateVideoStatus(obj[w], StatusProcessing, ok)
          /\ Goto(w, IF UpdateErr(obj[w], StatusProcessing, ok)
                     THEN "retry" ELSE "createTemp")
    /\ UNCHANGED <<procFrame, storeVars, workChan, cleanup, procVars>>

\* tmpFile, err := os.CreateTemp("", "video-*.mp4"); defer os.Remove(tmpPath)
CreateTemp(w) ==
    /\ pc[w] = "createTemp"
    /\ \E ok \in Outcomes :
          /\ faults' = Spend(ok)
          /\ tmpFiles' = IF ok THEN tmpFiles \cup FilesOf(w, {"input"}) ELSE tmpFiles
          /\ Goto(w, IF ok THEN "getObject" ELSE "retry")
    /\ UNCHANGED <<procFrame, video, storeVars, workChan, cleanup, thumbnailBucket,
                   attempts, compressErr, thumbnailErr, thumbUploads>>

\* vp.storage.GetObject(ctx, obj.Key, 0, -1) and io.Copy(tmpFile, reader);
\* then wg.Add(2) and the two go statements
CopyObject(w) ==
    /\ pc[w] = "getObject"
    /\ \E ok \in CtxOutcomes :
          /\ faults' = CtxSpend(ok)
          /\ IF ok /\ rawVideosBucket[obj[w]] > 0
             THEN /\ compressErr' = [compressErr EXCEPT ![w] = "running"]
                  /\ thumbnailErr' = [thumbnailErr EXCEPT ![w] = "running"]
                  /\ Goto(w, "wait")
                  /\ UNCHANGED tmpFiles
             ELSE /\ tmpFiles' = tmpFiles \ FilesOf(w, {"input"})
                  /\ Goto(w, "retry")
                  /\ UNCHANGED <<compressErr, thumbnailErr>>
    /\ UNCHANGED <<procFrame, video, storeVars, workChan, cleanup, thumbnailBucket,
                   attempts, thumbUploads>>

\* go func() { compressedFile, compressErr = vp.compressAndConvertVideo(tmpPath) }
\* ffmpeg that fails may or may not leave the output file it had begun
RunCompress(w) ==
    /\ pc[w] = "wait"
    /\ compressErr[w] = "running"
    /\ \E ok \in Outcomes, left \in BOOLEAN :
          /\ faults' = Spend(ok)
          /\ IF compressAndConvertVideo(obj[w], ok)
             THEN /\ compressErr' = [compressErr EXCEPT ![w] = "nil"]
                  /\ tmpFiles' = tmpFiles \cup FilesOf(w, {"compressed"})
             ELSE /\ compressErr' = [compressErr EXCEPT ![w] = "err"]
                  /\ tmpFiles' = IF left THEN tmpFiles \cup FilesOf(w, {"compressed"})
                                 ELSE tmpFiles
    /\ UNCHANGED <<procFrame, video, storeVars, workChan, cleanup, pc, obj, retryCount,
                   thumbnailBucket, attempts, thumbnailErr, thumbUploads>>

\* go func() { thumbnailPath, thumbnailErr = vp.createThumbnail(tmpPath) }
\* a file the encoder rejects may or may not have a first frame ffmpeg can cut
RunThumbnail(w) ==
    /\ pc[w] = "wait"
    /\ thumbnailErr[w] = "running"
    /\ \E ok \in Outcomes, left \in BOOLEAN,
          frame \in (IF content[obj[w]] = "good" THEN {TRUE} ELSE BOOLEAN) :
          /\ faults' = Spend(ok)
          /\ IF ok /\ frame
             THEN /\ thumbnailErr' = [thumbnailErr EXCEPT ![w] = "nil"]
                  /\ tmpFiles' = tmpFiles \cup FilesOf(w, {"thumbnail"})
             ELSE /\ thumbnailErr' = [thumbnailErr EXCEPT ![w] = "err"]
                  /\ tmpFiles' = IF left THEN tmpFiles \cup FilesOf(w, {"thumbnail"})
                                 ELSE tmpFiles
    /\ UNCHANGED <<procFrame, video, storeVars, workChan, cleanup, pc, obj, retryCount,
                   thumbnailBucket, attempts, compressErr, thumbUploads>>

\* both ffmpeg goroutines have called wg.Done()
JobsDone(w) == compressErr[w] # "running" /\ thumbnailErr[w] # "running"

\* WaitBoth of a processVideo that waits for the encoder only
WaitBoth_CompressOnly(w) ==
    /\ pc[w] = "wait"
    /\ compressErr[w] # "running"
    /\ IF compressErr[w] = "err"
       THEN Goto(w, "updFailed") /\ UNCHANGED thumbUploads
       ELSE /\ Goto(w, "upload")
            /\ thumbUploads' =
                  IF thumbnailErr[w] = "nil"
                  THEN thumbUploads \cup {<<w, attempts[w], obj[w]>>}
                  ELSE thumbUploads
    /\ UNCHANGED <<procFrame, video, storeVars, workChan, cleanup, faults, thumbnailBucket,
                   tmpFiles, attempts, compressErr, thumbnailErr>>

\* WaitBoth of a processVideo that returns the error of createThumbnail
WaitBoth_ThumbnailFatal(w) ==
    /\ pc[w] = "wait"
    /\ JobsDone(w)
    /\ IF compressErr[w] = "err"
       THEN Goto(w, "updFailed") /\ UNCHANGED <<thumbUploads, tmpFiles>>
       ELSE IF thumbnailErr[w] = "err"
       THEN /\ Goto(w, "retry")
            /\ tmpFiles' = tmpFiles \ FilesOf(w, {"input", "compressed"})
            /\ UNCHANGED thumbUploads
       ELSE /\ Goto(w, "upload")
            /\ thumbUploads' = thumbUploads \cup {<<w, attempts[w], obj[w]>>}
            /\ UNCHANGED tmpFiles
    /\ UNCHANGED <<procFrame, video, storeVars, workChan, cleanup, faults, thumbnailBucket,
                   attempts, compressErr, thumbnailErr>>

\* wg.Wait(); if compressErr != nil the failure path, else the deferred
\* removals are registered and, if thumbnailErr == nil, the goroutine that
\* uploads the thumbnail is started
WaitBoth(w) ==
    /\ pc[w] = "wait"
    /\ JobsDone(w)
    /\ IF compressErr[w] = "err"
       THEN Goto(w, "updFailed") /\ UNCHANGED thumbUploads
       ELSE /\ Goto(w, "upload")
            /\ thumbUploads' =
                  IF thumbnailErr[w] = "nil"
                  THEN thumbUploads \cup {<<w, attempts[w], obj[w]>>}
                  ELSE thumbUploads
    /\ UNCHANGED <<procFrame, video, storeVars, workChan, cleanup, faults, thumbnailBucket,
                   tmpFiles, attempts, compressErr, thumbnailErr>>

\* err := vp.db.UpdateVideoStatus(obj.Key, database.StatusFailed)
MarkFailed(w) ==
    /\ pc[w] = "updFailed"
    /\ \E ok \in Outcomes :
          /\ faults' = Spend(ok)
          /\ video' = UpdateVideoStatus(obj[w], StatusFailed, ok)
    /\ Goto(w, "moveFailed")
    /\ UNCHANGED <<procFrame, storeVars, workChan, cleanup, procVars>>

\* moveErr := vp.moveToFailedBucket(ctx, obj), then one of the two returns
\* of an error: of the deferred calls only os.Remove(tmpPath) is registered
Quarantine(w) ==
    /\ pc[w] = "moveFailed"
    /\ \E ok \in CtxOutcomes :
          /\ faults' = CtxSpend(ok)
          /\ IF ok /\ rawVideosBucket[obj[w]] > 0
             THEN /\ cleanup[obj[w]] < MaxCleanup
                  /\ failedBucket' = PutObject(failedBucket, obj[w])
                  /\ cleanup' = [cleanup EXCEPT ![obj[w]] = @ + 1]
             ELSE UNCHANGED <<failedBucket, cleanup>>
    /\ tmpFiles' = tmpFiles \ FilesOf(w, {"input"})
    /\ Goto(w, "retry")
    /\ UNCHANGED <<procFrame, video, rawVideosBucket, videosBucket, workChan,
                   thumbnailBucket, attempts, compressErr, thumbnailErr, thumbUploads>>

\* os.Open(compressedFile) and vp.storage.PutObject(ctx, videosBucket, ...);
\* on success the goroutine that deletes raw/key is started
PutVideo(w) ==
    /\ pc[w] = "upload"
    /\ \E ok \in CtxOutcomes :
          /\ faults' = CtxSpend(ok)
          /\ IF ok
             THEN /\ cleanup[obj[w]] < MaxCleanup
                  /\ videosBucket' = PutObject(videosBucket, obj[w])
                  /\ cleanup' = [cleanup EXCEPT ![obj[w]] = @ + 1]
                  /\ Goto(w, "updCompleted")
                  /\ UNCHANGED tmpFiles
             ELSE /\ tmpFiles' = tmpFiles \ FilesOf(w, AllDefers(w))
                  /\ Goto(w, "retry")
                  /\ UNCHANGED <<videosBucket, cleanup>>
    /\ UNCHANGED <<procFrame, video, rawVideosBucket, failedBucket, workChan,
                   thumbnailBucket, attempts, compressErr, thumbnailErr, thumbUploads>>

\* err = vp.db.UpdateVideoStatus(obj.Key, database.StatusCompleted) and the
\* return of its error or of nil
MarkCompleted(w) ==
    /\ pc[w] = "updCompleted"
    /\ \E ok \in Outcomes :
          /\ faults' = Spend(ok)
          /\ video' = UpdateVideoStatus(obj[w], StatusCompleted, ok)
          /\ IF UpdateErr(obj[w], StatusCompleted, ok)
             THEN Goto(w, "retry") ELSE Exit(w)
    /\ tmpFiles' = tmpFiles \ FilesOf(w, AllDefers(w))
    /\ UNCHANGED <<procFrame, storeVars, workChan, cleanup, thumbnailBucket,
                   attempts, compressErr, thumbnailErr, thumbUploads>>

\* go func() { vp.uploadThumbnail(ctx, thumbnailPath, obj.Key) }(): os.Open
\* fails if the deferred os.Remove(thumbnailPath) has already run; an error
\* is only printed
UploadThumbnail(u) ==
    /\ u \in thumbUploads
    /\ thumbUploads' = thumbUploads \ {u}
    /\ \E ok \in CtxOutcomes :
          /\ faults' = CtxSpend(ok)
          /\ thumbnailBucket' =
                IF ok /\ <<u[1], u[2], "thumbnail">> \in tmpFiles
                THEN PutObject(thumbnailBucket, u[3])
                ELSE thumbnailBucket
    /\ UNCHANGED <<procFrame, video, storeVars, workChan, cleanup, pc, obj, retryCount,
                   tmpFiles, attempts, compressErr, thumbnailErr>>

\* the row of k is taken back while the key is being worked on: it is
\* deleted, or set to Unknown
CancelOutOfBand(k) ==
    /\ k \in DOMAIN video
    /\ \/ video' = [j \in DOMAIN video \ {k} |-> video[j]]
       \/ video[k] # StatusUnknown /\ video' = [video EXCEPT ![k] = StatusUnknown]
    /\ UNCHANGED <<procFrame, storeVars, workChan, cleanup, faults, pc, obj, retryCount,
                   procVars>>

\* every goroutine uploadThumbnail could be started as
ThumbUploads == Workers \X (1..maxRetries) \X Keys

\* discovery has sent one key; what happens to it is observed
ProcInit ==
    /\ InitStore
    /\ processedFiles = {}
    /\ \E k \in Keys : workChan = <<k>>
    /\ dpc = "tick"
    /\ objects = <<>>
    /\ pc = [w \in Workers |-> "recv"]
    /\ obj = [w \in Workers |-> 0]
    /\ retryCount = [w \in Workers |-> 0]
    /\ cleanup = [k \in Keys |-> 0]
    /\ ctxDone = FALSE
    /\ ApiOff
    /\ BucketsReady
    /\ ProcOff
    /\ MainServing
    /\ faults = MaxFaults

ProcNext ==
    \/ \E w \in Workers : Dequeue(w)
    \/ \E w \in Workers : ReadStatus(w)
    \/ \E w \in Workers : Retry(w)
    \/ \E w \in Workers : MarkProcessing(w)
    \/ \E w \in Workers : CreateTemp(w)
    \/ \E w \in Workers : CopyObject(w)
    \/ \E w \in Workers : RunCompress(w)
    \/ \E w \in Workers : RunThumbnail(w)
    \/ \E w \in Workers : WaitBoth(w)
    \/ \E w \in Workers : MarkFailed(w)
    \/ \E w \in Workers : Quarantine(w)
    \/ \E w \in Workers : PutVideo(w)
    \/ \E w \in Workers : MarkCompleted(w)
    \/ \E u \in ThumbUploads : UploadThumbnail(u)
    \/ \E k \in Keys : Cleanup(k)
    \/ \E k \in Keys : CancelOutOfBand(k)

ProcSpec == ProcInit /\ [][ProcNext]_vars

\* ------------------------------------------------------------- properties

Catalogued(k) == k \in DOMAIN video
StatusOf(k) == IF Catalogued(k) THEN video[k] ELSE StatusUnknown
\* worker w is between receiving k and the end of its retry loop on k
Holds(w, k) == obj[w] = k
\* worker w is inside processVideo(k)
InProcess(w, k) == obj[w] = k /\ pc[w] \notin {"recv", "getStatus"}
InChan(k) == \E i \in 1..Len(workChan) : workChan[i] = k
InListing(k) == \E i \in 1..Len(objects) : objects[i] = k
NoFaultSoFar == faults = MaxFaults

\* C1: at most one worker is inside processVideo(k) at the same time, for
\* every key k and in every reachable state.
C1_AtMostOneWorkerPerKey ==
    \A k \in Keys : Cardinality({w \in Workers : InProcess(w, k)}) <= 1

\* C2: every asset whose status is Completed has an object in the videos
\* bucket and none in the raw bucket.
C2_CompletedDeliveredAndDrained ==
    \A k \in Keys :
        StatusOf(k) = StatusCompleted =>
            videosBucket[k] > 0 /\ rawVideosBucket[k] = 0

\* C3: every asset whose status is Failed has an object in the failed bucket
\* and none in the raw bucket.
C3_FailedQuarantinedAndDrained ==
    \A k \in Keys :
        StatusOf(k) = StatusFailed =>
            failedBucket[k] > 0 /\ rawVideosBucket[k] = 0

\* C4: no key is in the videos bucket and in the failed bucket at once.
C4_NeverInVideosAndFailed ==
    \A k \in Keys : ~(videosBucket[k] > 0 /\ failedBucket[k] > 0)

\* C5: for a key of the raw bucket that has no catalog row, no step makes a
\* worker enter processVideo(key), writes a row for it, puts or deletes
\* anything under it or spawns a delete of it: raw/key stays in place.
C5_UncataloguedKeySkipped ==
    [][\A k \in Keys :
          ~Catalogued(k) =>
              /\ k \notin DOMAIN video'
              /\ rawVideosBucket'[k] = rawVideosBucket[k]
              /\ videosBucket'[k] = videosBucket[k]
              /\ failedBucket'[k] = failedBucket[k]
              /\ cleanup'[k] = cleanup[k]
              /\ \A w \in Workers : obj'[w] = k => pc'[w] = "getStatus"]_vars

\* a worker has received an uncatalogued key and has already retried on it
C5_Witness ==
    \E w \in Workers :
        /\ obj[w] \in Keys
        /\ ~Catalogued(obj[w])
        /\ rawVideosBucket[obj[w]] > 0
        /\ retryCount[w] = maxRetries - 1

\* the transitions of the lifecycle the scheduler may make
LegalTransitions ==
    { <<StatusPending, StatusProcessing>>,
      <<StatusProcessing, StatusCompleted>>,
      <<StatusProcessing, StatusFailed>>,
      <<StatusProcessing, StatusPending>> }

\* C6: every change of the status of a row is one of Pending->Processing,
\* Processing->Completed, Processing->Failed, Processing->Pending; a row that
\* is Completed or Failed is never changed.
C6_OnlyLegalTransitions ==
    [][\A k \in DOMAIN video :
          video'[k] # video[k] => <<video[k], video'[k]>> \in LegalTransitions]_vars

\* C7: when no call fails, a Pending key that is in the raw bucket with
\* transcodable content eventually has status Completed.
C7_PendingGoodInputCompletes ==
    \A k \in Keys :
        (StatusOf(k) = StatusPending /\ rawVideosBucket[k] > 0
            /\ content[k] = "good")
        ~> (StatusOf(k) = StatusCompleted)

\* a key that started Pending with transcodable content is Completed
C7_Witness ==
    \E k \in Keys :
        /\ k \in DOMAIN start.video
        /\ start.video[k] = StatusPending
        /\ content[k] = "good"
        /\ StatusOf(k) = StatusCompleted

\* the scheduler has nothing left to do for key k: it is gone from raw, no
\* delete of it is outstanding, and it is neither listed, queued nor held
Finished(k) ==
    /\ rawVideosBucket[k] = 0
    /\ cleanup[k] = 0
    /\ ~InChan(k)
    /\ ~InListing(k)
    /\ \A w \in Workers : ~Holds(w, k)

\* C8: when no call fails, a key that started Pending in the raw bucket with
\* content the encoder rejects is, once the scheduler has finished with it,
\* Failed, in the failed bucket, and neither in videos nor in raw.
C8_BadInputEndsFailed ==
    \A k \in Keys :
        (/\ k \in DOMAIN start.video
         /\ start.video[k] = StatusPending
         /\ content[k] = "bad"
         /\ NoFaultSoFar
         /\ Finished(k))
        => (/\ StatusOf(k) = StatusFailed
            /\ failedBucket[k] > 0
            /\ videosBucket[k] = 0
            /\ rawVideosBucket[k] = 0)

\* C9: when a worker leaves the retry loop because the last allowed attempt
\* of processVideo(key) failed, the key is Failed, in the failed bucket and
\* gone from the raw bucket.
C9_ExhaustedRetriesQuarantine ==
    [][\A w \in Workers :
          (pc[w] = "retry" /\ pc'[w] = "recv") =>
              /\ video'[obj[w]] = StatusFailed
              /\ failedBucket'[obj[w]] > 0
              /\ rawVideosBucket'[obj[w]] = 0]_vars

\* C10: a fresh scheduler that finds key k in raw with transcodable content,
\* status Pending or Processing, and possibly an uploaded file of the
\* interrupted run in videos, brings k to Completed with exactly one object
\* under k in videos, when no call fails.
C10_RedriveConverges ==
    \A k \in Keys :
        (/\ InitScheduler
         /\ StatusOf(k) \in {StatusPending, StatusProcessing}
         /\ rawVideosBucket[k] > 0
         /\ content[k] = "good")
        ~> (StatusOf(k) = StatusCompleted /\ videosBucket[k] = 1)

\* a key found Processing with its file already in videos is Completed and
\* videos still holds one object under it
C10_Witness ==
    \E k \in Keys :
        /\ k \in DOMAIN start.video
        /\ start.video[k] = StatusProcessing
        /\ start.videosBucket[k] = 1
        /\ StatusOf(k) = StatusCompleted
        /\ videosBucket[k] = 1

\* Start has returned, after close(workChan) and after every worker returned
Returned == dpc = "returned" /\ Closed /\ \A w \in Workers : pc[w] = "done"

\* C11: after the context is cancelled, Start eventually closes workChan,
\* every worker returns and Start returns, wherever discovery and the
\* workers were when cancel() was called.
C11_CancelLeadsToReturn == ctxDone ~> Returned

\* Start has returned although, when it closed the channel, the channel was
\* full and a listed key was still waiting to be sent
C11_Witness ==
    /\ Returned
    /\ objects # <<>>
    /\ Len(workChan) = ChanCap

\* C12: in a state in which the context is cancelled, no step writes the
\* video table.
C12_NoCatalogWriteAfterCancel == [][ctxDone => video' = video]_vars

\* the request served was sent to handler h for an asset-key, and no adapter
\* call made for it failed in transport
Served(h) ==
    /\ req.handler = h
    /\ req.video \in AssetNames
    /\ \A i \in 1..Len(calls) : calls[i].err # "Transport"
Consulted(fn) == \E i \in 1..Len(calls) : calls[i].fn = fn

\* C13: GET /api/videos/{key} for a key with a catalog row answers by the
\* state of the row and the presence of videos/key: Pending 202 "pending",
\* Processing 202 "processing", Failed 422 "failed", each without a call to
\* the object store; Completed 404 "not_found" when videos/key is missing
\* and 200 "completed" when it is there.
C13_MetadataTable ==
    (Served("GetVideoMetadata") /\ req.video \in DOMAIN video) =>
        LET state == video[req.video]
            found == req.video \in DOMAIN objectInfo
        IN  /\ state = StatusPending =>
                  resp.code = 202 /\ resp.status = "pending" /\ ~Consulted("StatVideo")
            /\ state = StatusProcessing =>
                  resp.code = 202 /\ resp.status = "processing" /\ ~Consulted("StatVideo")
            /\ state = StatusFailed =>
                  resp.code = 422 /\ resp.status = "failed" /\ ~Consulted("StatVideo")
            /\ (state = StatusCompleted /\ ~found) =>
                  resp.code = 404 /\ resp.status = "not_found"
            /\ (state = StatusCompleted /\ found) =>
                  resp.code = 200 /\ resp.status = "completed"

\* C14: GET /api/videos/{key} for a key without a catalog row answers 404
\* "not_found", not 500.
C14_MissingRowIsNotFound ==
    (Served("GetVideoMetadata") /\ req.video \notin DOMAIN video) =>
        resp.code = 404 /\ resp.status = "not_found"

\* StreamVideo has served the request for an object that StatVideo found
Streamed ==
    /\ req.handler = "StreamVideo"
    /\ ~HasSuffix(req.video, ".temp")
    /\ calls # <<>>
    /\ calls[1].fn = "StatVideo" /\ calls[1].err = ""
\* the forms "bytes=a-b" and "bytes=a-" of a Range header
IsClosedRange(h) ==
    Len(h) = 4 /\ h[1] = Lit("bytes=") /\ h[2].kind = "num"
               /\ h[3] = Lit("-") /\ h[4].kind = "num"
IsOpenRange(h) ==
    Len(h) = 3 /\ h[1] = Lit("bytes=") /\ h[2].kind = "num" /\ h[3] = Lit("-")
Max(a, b) == IF a >= b THEN a ELSE b
Min(a, b) == IF a <= b THEN a ELSE b

\* C15: for the size of the object and the Range header of the request,
\* parseRangeHeader gives (0, size-1) without a header, (max(0,a),
\* min(size-1,b)) for "bytes=a-b" and (max(0,a), size-1) for "bytes=a-"; and
\* when a >= size the answer is 416 with Content-Range "bytes */size" and
\* the object is not read.
C15_ParseRangeAnd416 ==
    Streamed =>
        LET h == req.Range
            size == objectInfo[req.video]
            se == parseRangeHeader(h, size)
        IN  /\ h = <<>> => se = <<0, size - 1>>
            /\ IsClosedRange(h) =>
                  se = <<Max(0, h[2].n), Min(size - 1, h[4].n)>>
            /\ IsOpenRange(h) => se = <<Max(0, h[2].n), size - 1>>
            /\ ((IsClosedRange(h) \/ IsOpenRange(h)) /\ h[2].n >= size) =>
                  /\ resp.code = 416
                  /\ resp.contentRange = BytesUnsatisfied(size)
                  /\ resp.body # "object"
                  /\ ~Consulted("GetVideo")

\* "bytes=a-b" with a beyond the end of a non-empty object, b beyond it too
C15_Witness ==
    /\ Streamed
    /\ IsClosedRange(req.Range)
    /\ objectInfo[req.video] > 0
    /\ req.Range[2].n >= objectInfo[req.video]
    /\ req.Range[4].n > req.Range[2].n
    /\ resp.code = 416

\* the headers and status of a response that serves the range [S, E]
RangeHeadersSent ==
    LET size == objectInfo[req.video]
        se == parseRangeHeader(req.Range, size)
        S == se[1]
        E == se[2]
    IN  /\ resp.contentLength = <<E - S + 1>>
        /\ IF S > 0 \/ E < size - 1
           THEN resp.code = 206 /\ resp.contentRange = BytesRange(S, E, size)
           ELSE resp.code = 200 /\ resp.contentRange = <<>>

\* C16 as stated: every GET /video/{key} that is not answered 404 or 416
\* carries Content-Length E-S+1, and 206 with Content-Range "bytes S-E/size"
\* when the range is partial, else 200 without Content-Range.
C16_Not404Not416 ==
    (req.handler = "StreamVideo" /\ req.video \in AssetNames
        /\ resp.code \notin {404, 416})
    => RangeHeadersSent

\* C16, amended: the same for every GET /video/{key} that is not answered
\* 404 or 416 and whose GetVideo call returned no error.
C16_RangeResponseHeaders ==
    (req.handler = "StreamVideo" /\ req.video \in AssetNames
        /\ resp.code \notin {404, 416}
        /\ \A i \in 1..Len(calls) : calls[i].err = "")
    => RangeHeadersSent

\* the object is streamed from a middle byte on
C16_Witness ==
    /\ Streamed
    /\ IsOpenRange(req.Range)
    /\ req.Range[2].n > 0
    /\ resp.code = 206
    /\ resp.body = "object"

\* the call to adapter function fn made while the request was served
CallTo(fn) == calls[CHOOSE i \in 1..Len(calls) : calls[i].fn = fn]

\* C17: on GET /video/{key}, NotFound from StatVideo is answered 404, a
\* transport failure of StatVideo is answered 500 and never 404, and a
\* failure of GetVideo is answered 500, never 200 or 206.
C17_AdapterErrorsMapped ==
    (req.handler = "StreamVideo" /\ req.video \in AssetNames) =>
        /\ (Consulted("StatVideo") /\ CallTo("StatVideo").err = "NotFound")
              => resp.code = 404
        /\ (Consulted("StatVideo") /\ CallTo("StatVideo").err = "Transport")
              => resp.code = 500
        /\ (Consulted("GetVideo") /\ CallTo("GetVideo").err # "")
              => resp.code = 500

\* C18: no step creates or deletes a catalog row: the set of catalogued
\* keys never changes, the scheduler only changes the status of rows.
C18_RowsNeitherCreatedNorDeleted == [][DOMAIN video' = DOMAIN video]_vars

\* the scheduler has rewritten a row found Pending up to Completed or Failed,
\* and the rows are those found at start
C18_Witness ==
    /\ \E k \in DOMAIN video :
          start.video[k] = StatusPending
          /\ video[k] \in {StatusCompleted, StatusFailed}
    /\ DOMAIN video = DOMAIN start.video

\* C19: whenever the last ensureBucketExists of a bucket returned nil, the
\* bucket exists and has the public-read policy.
C19_EnsuredBucketIsPublic ==
    \A b \in BucketNames :
        ensured[b] = "nil" => buckets[b].exists /\ buckets[b].public

\* keys received by a worker that has not yet left its retry loop on them
HeldKeys == {k \in Keys : \E w \in Workers : Holds(w, k)}

\* C20: in every reachable state processedFiles, the in-flight set, is the
\* set of keys held by workers.
C20_InFlightIsHeldKeys == processedFiles = HeldKeys

\* the step appends key k to workChan
Enqueues(k) ==
    /\ Len(workChan') = Len(workChan) + 1
    /\ workChan'[Len(workChan')] = k

\* C21: discovery never enqueues a key that some worker has dequeued and not
\* yet finished: a listed key a worker holds is skipped on the tick.
C21_HeldKeyNotEnqueued ==
    [][\A k \in Keys : Enqueues(k) => ~\E w \in Workers : Holds(w, k)]_vars

\* the step is a listing of raw that failed: discovery was at the ticker, a
\* store call failed, and neither a worker nor a raw deletion made a step
ListingFailed ==
    /\ dpc = "tick"
    /\ faults' < faults
    /\ pc' = pc
    /\ cleanup' = cleanup

\* C27: a failed listing is swallowed: nothing is enqueued on that tick, no
\* worker is stopped, workChan stays open and Start does not return:
\* discovery is back at the ticker and lists raw again on the next tick.
C27_ListingFailureSwallowed ==
    [][ListingFailed =>
          /\ workChan' = workChan
          /\ objects' = <<>>
          /\ dpc' = "tick"
          /\ \A w \in Workers : pc'[w] # "done"]_vars

\* one store call has failed, and it was the listing: the only key is still
\* in raw with its row Pending, so no worker has been handed it
C27_Witness ==
    /\ faults = MaxFaults - 1
    /\ dpc = "tick"
    /\ workChan = <<>>
    /\ \A w \in Workers : pc[w] = "recv"
    /\ \A k \in Keys : rawVideosBucket[k] > 0 /\ StatusOf(k) = StatusPending
    /\ video = start.video

\* the step takes the head of the listing without sending it
Dropped(k) ==
    /\ objects # <<>>
    /\ Head(objects) = k
    /\ objects' = Tail(objects)
    /\ ~Enqueues(k)

\* C28: workChan never holds more than 2 * W keys; when it is full, discovery
\* stays at the send until a worker takes a key or the token is cancelled,
\* so while the token is not cancelled no listed key that is not in flight
\* is dropped, and a listing is replaced only when it has been gone through.
C28_ChannelBoundedNothingDropped ==
    /\ [](Len(workChan) <= 2 * NumWorkers)
    /\ [][(Len(workChan) = 2 * NumWorkers /\ dpc = "send"
              /\ Head(objects) \notin processedFiles /\ dpc' # "send")
            => ctxDone]_vars
    /\ [][\A k \in Keys : (Dropped(k) /\ ~ctxDone) => k \in processedFiles]_vars
    /\ [][objects' # objects => (objects = <<>> \/ objects' = Tail(objects))]_vars

\* the channel is full and discovery is blocked at the send of a listed key,
\* the token not being cancelled
C28_Witness ==
    /\ Len(workChan) = 2 * NumWorkers
    /\ dpc = "send"
    /\ ~ctxDone
    /\ Head(objects) \notin processedFiles

\* worker w makes a step
Steps(w) == pc'[w] # pc[w] \/ retryCount'[w] # retryCount[w]
\* processVideo of worker w returns in this step
Returns(w) == pc[w] \in ProcLabels /\ pc'[w] \in {"retry", "recv"}
\* worker w leaves the retry loop because retryCount has reached maxRetries
\* after an attempt that failed
GivesUp(w) == pc[w] = "retry" /\ pc'[w] = "recv"

\* C22: for one dequeued key a worker calls processVideo again after a
\* failed attempt until an attempt succeeds or maxRetries = 3 retries have
\* been made, and never more often; a successful attempt ends the loop at
\* once and the worker is back at the receive.
C22_RetriedUntilThreeRetries ==
    /\ [][\A w \in Workers : GivesUp(w) => attempts[w] - 1 = maxRetries]_vars
    /\ [](\A w \in Workers : attempts[w] - 1 <= maxRetries)
    /\ [][\A w \in Workers :
            (pc[w] = "updCompleted" /\ Steps(w) /\ pc'[w] # "retry")
               => pc'[w] = "recv"]_vars

\* the row of the key worker w holds is absent or Unknown when w is about to
\* read it before a retry
AbsentBeforeRetry(w) ==
    /\ pc[w] = "getStatus"
    /\ attempts[w] > 0
    /\ StatusOf(obj[w]) = StatusUnknown

\* C23: the row is read before every call of processVideo, retries included;
\* once the row is absent (or Unknown) at the read before a retry, the
\* worker never enters processVideo again for this key, and every write to
\* the catalog is a step of a worker inside processVideo.
C23_StateRereadCancellationHonoured ==
    /\ [][\A w \in Workers :
            (pc[w] \notin ProcLabels /\ pc'[w] \in ProcLabels)
               => pc[w] = "getStatus" /\ pc'[w] = "updProcessing"]_vars
    /\ \A w \in Workers :
          [](AbsentBeforeRetry(w) => [](pc[w] \in {"getStatus", "recv"}))
    /\ [][(video' # video /\ pc' # pc) =>
            \E w \in Workers :
               pc[w] \in {"updProcessing", "updFailed", "updCompleted"}
               /\ pc'[w] # pc[w]]_vars

\* a first attempt failed, the row was then taken back, and the worker has
\* left the retry loop without a second attempt
C23_Witness ==
    \E w \in Workers :
       /\ pc[w] = "recv"
       /\ attempts[w] = 1
       /\ workChan = <<>>
       /\ faults >= MaxFaults - 1
       /\ \A k \in Keys : /\ StatusOf(k) = StatusUnknown
                          /\ k \in DOMAIN start.video
                          /\ start.video[k] = StatusPending
                          /\ videosBucket[k] = 0

\* C24: a failure of the encoder is terminal: once the quarantine has copied
\* key k to the failed bucket, the worker that holds k is not inside
\* processVideo(k) again.
C24_TranscodeFailureTerminal ==
    \A w \in Workers, k \in Keys :
        (Holds(w, k) /\ failedBucket[k] > 0) => pc[w] \notin ProcLabels

\* C25: a failure of createThumbnail or of the thumbnail upload is not
\* fatal: with the encoder run, the upload to videos and the catalog writes
\* succeeding, processVideo goes on to the upload whatever thumbnailErr is,
\* returns nil with the row Completed and the object in videos, and
\* quarantines nothing; after a failed createThumbnail no upload goroutine is
\* started, and only such a goroutine writes to the thumbnail bucket.
C25_ThumbnailFailureNotFatal ==
    /\ [][\A w \in Workers :
            (pc[w] = "wait" /\ Steps(w) /\ compressErr[w] = "nil")
               => /\ pc'[w] = "upload"
                  /\ thumbnailErr[w] = "err" => thumbUploads' = thumbUploads]_vars
    /\ [][\A w \in Workers :
            (pc[w] = "upload" /\ Steps(w) /\ faults' = faults)
               => /\ pc'[w] = "updCompleted"
                  /\ videosBucket'[obj[w]] > 0
                  /\ failedBucket' = failedBucket]_vars
    /\ [][\A w \in Workers :
            (pc[w] = "updCompleted" /\ Steps(w) /\ faults' = faults
                /\ Catalogued(obj[w]))
               => /\ pc'[w] = "recv"
                  /\ video'[obj[w]] = StatusCompleted
                  /\ videosBucket'[obj[w]] > 0
                  /\ failedBucket' = failedBucket]_vars
    /\ [][thumbnailBucket' # thumbnailBucket
            => \E u \in thumbUploads : u \notin thumbUploads']_vars
    /\ [][thumbUploads' # thumbUploads /\ thumbUploads' \subseteq thumbUploads
            => pc' = pc /\ video' = video /\ failedBucket' = failedBucket]_vars

\* the first attempt returned nil although createThumbnail had failed: the
\* row is Completed, the object in videos, nothing in failed or thumbnails
C25_Witness ==
    \E w \in Workers, k \in Keys :
       /\ pc[w] = "recv"
       /\ attempts[w] = 1
       /\ thumbnailErr[w] = "err"
       /\ compressErr[w] = "nil"
       /\ StatusOf(k) = StatusCompleted
       /\ videosBucket[k] > 0
       /\ failedBucket[k] = 0
       /\ thumbnailBucket[k] = 0

\* the write of Processing by worker w fails in this step
ProcessingWriteFails(w) ==
    /\ pc[w] = "updProcessing"
    /\ Steps(w)
    /\ faults' < faults \/ ~Catalogued(obj[w])

\* C26: when the write of Processing fails, the attempt ends with no other
\* effect: no temp file is made, raw/key is neither read nor deleted, no
\* ffmpeg is run, and the videos, thumbnail and failed buckets are unchanged.
C26_FailedProcessingWriteNoEffect ==
    [][\A w \in Workers : ProcessingWriteFails(w) =>
          /\ pc'[w] = "retry"
          /\ video' = video
          /\ tmpFiles' = tmpFiles
          /\ storeVars' = storeVars
          /\ thumbnailBucket' = thumbnailBucket
          /\ cleanup' = cleanup
          /\ compressErr' = compressErr
          /\ thumbnailErr' = thumbnailErr
          /\ thumbUploads' = thumbUploads]_vars

\* the first attempt has ended at the write of Processing: the row is still
\* Pending and the worker is about to count a retry
C26_Witness ==
    \E w \in Workers :
       /\ pc[w] = "retry"
       /\ attempts[w] = 1
       /\ obj[w] \in Keys
       /\ StatusOf(obj[w]) = StatusPending
       /\ faults = MaxFaults - 1

\* C29: whenever processVideo returns, on any path, none of the temp files
\* of the call remains: the downloaded input, the output of the encoder and
\* the thumbnail file are removed.
C29_NoTempFileLeft ==
    [][\A w \in Workers : Returns(w) => FilesOf(w, FileKinds) \cap tmpFiles' = {}]_vars

\* C30: the upload to videos does not start before both ffmpeg goroutines
\* have finished, and both results are looked at: the failure path is taken
\* exactly when the encoder failed, whatever createThumbnail returned, and
\* no thumbnail upload is started for a createThumbnail that failed.
C30_UploadAfterBothJobs ==
    \A w \in Workers :
       /\ pc[w] \in {"updFailed", "moveFailed", "upload", "updCompleted"}
             => compressErr[w] \in {"nil", "err"} /\ thumbnailErr[w] \in {"nil", "err"}
       /\ pc[w] \in {"upload", "updCompleted"} => compressErr[w] = "nil"
       /\ pc[w] \in {"updFailed", "moveFailed"} => compressErr[w] = "err"
       /\ (pc[w] \in {"upload", "updCompleted"} /\ thumbnailErr[w] = "err")
             => <<w, attempts[w], obj[w]>> \notin thumbUploads

\* both goroutines have finished, the encoder with success and
\* createThumbnail with an error, and the upload to videos is about to start
C30_Witness ==
    \E w \in Workers :
       pc[w] = "upload" /\ compressErr[w] = "nil" /\ thumbnailErr[w] = "err"

\* the step is the run of the upload goroutine u
UploadRuns(u) == u \in thumbUploads /\ u \notin thumbUploads'

\* C31: as long as no call has failed, the goroutine that uploads the
\* thumbnail of an attempt reads the thumbnail file before the deferred
\* removals of that attempt delete it, under every interleaving: whenever
\* the goroutine runs, the file is there and the thumbnail bucket gets the
\* object of the key.
C31_ThumbnailReadBeforeRemoval ==
    [][\A u \in ThumbUploads :
          (UploadRuns(u) /\ NoFaultSoFar /\ faults' = faults)
             => /\ <<u[1], u[2], "thumbnail">> \in tmpFiles
                /\ thumbnailBucket'[u[3]] > 0]_vars

\* C33: GET /api/videos/{key} looks the catalog up under the key the
\* scheduler writes: for a key whose row is Completed and whose object is
\* in the videos bucket the answer is 200 "completed".
C33_MetadataUnderSchedulerKey ==
    (Served("GetVideoMetadata")
        /\ req.video \in DOMAIN video /\ video[req.video] = StatusCompleted
        /\ req.video \in DOMAIN objectInfo)
    => resp.code = 200 /\ resp.status = "completed"

\* C37: a GET /video/{key} that is not answered 404 or 416 serves a range
\* with 0 <= S <= E <= size - 1 and announces a Content-Length of at least
\* 1 and at most size, for every size and every Range header.
C37_ContentLengthWithinObject ==
    (Streamed /\ resp.code \notin {404, 416}) =>
        LET size == objectInfo[req.video]
            se == parseRangeHeader(req.Range, size)
        IN  /\ 0 <= se[1] /\ se[1] <= se[2] /\ se[2] <= size - 1
            /\ \E n \in 1..size : resp.contentLength = <<n>>

\* C34: no raw upload is lost: every key that was in raw is in raw, videos or
\* failed in every reachable state, and raw/key is deleted only when a put
\* of the key into videos or failed has succeeded, also with several workers
\* on the same key and with failing copies.
C34_NoRawUploadLost ==
    /\ [](\A k \in Keys :
             rawVideosBucket[k] > 0 \/ videosBucket[k] > 0 \/ failedBucket[k] > 0)
    /\ [][\A k \in Keys :
             rawVideosBucket'[k] < rawVideosBucket[k]
                => videosBucket[k] > 0 \/ failedBucket[k] > 0]_vars

\* a key has been deleted from raw after a call had failed, and is in failed
C34_Witness ==
    \E k \in Keys :
       /\ rawVideosBucket[k] = 0
       /\ failedBucket[k] > 0
       /\ faults < MaxFaults

\* C35: a key whose row is Completed has an object in videos: Completed is
\* written only when videos holds the key, and nothing is ever deleted from
\* videos.
C35_CompletedHasVideo ==
    /\ [](\A k \in Keys : StatusOf(k) = StatusCompleted => videosBucket[k] > 0)
    /\ [][\A k \in Keys :
             (StatusOf(k) # StatusCompleted /\ k \in DOMAIN video'
                 /\ video'[k] = StatusCompleted)
                => videosBucket[k] > 0]_vars
    /\ [][\A k \in Keys : videosBucket'[k] >= videosBucket[k]]_vars

\* a key found Pending and not in videos is Completed and in videos, after
\* an upload that failed once
C35_Witness ==
    \E k \in Keys :
       /\ k \in DOMAIN start.video /\ start.video[k] = StatusPending
       /\ start.videosBucket[k] = 0
       /\ StatusOf(k) = StatusCompleted
       /\ videosBucket[k] > 0
       /\ faults < MaxFaults

\* C36: workChan is closed at most once and nothing is sent on it after the
\* close, whether the cancellation is seen at the ticker or at a blocked
\* send; only the discovery loop closes it, and a step of a worker never
\* adds to it.
C36_ClosedOnceNoSendAfter ==
    /\ [][Closed => (Closed' /\ Len(workChan') <= Len(workChan))]_vars
    /\ [][(~Closed /\ Closed')
            => /\ dpc \in {"tick", "send"}
               /\ ctxDone
               /\ pc' = pc
               /\ workChan' = workChan]_vars
    /\ [][pc' # pc => Len(workChan') <= Len(workChan)]_vars

\* the channel was closed at a send blocked on the full channel, with keys
\* of the listing still unsent
C36_Witness ==
    /\ Closed
    /\ objects # <<>>
    /\ Len(workChan) = ChanCap

\* worker w calls GetVideoStatus or UpdateVideoStatus in this step
CatalogCall(w) ==
    /\ pc[w] \in {"getStatus", "updProcessing", "updFailed", "updCompleted"}
    /\ pc'[w] # pc[w] \/ retryCount'[w] # retryCount[w]

\* C32: on shutdown the token is cancelled before the listener is shut
\* down, the catalog is closed only when Start has returned and every worker
\* has exited, and no worker calls the catalog once it is closed.
C32_ShutdownOrder ==
    /\ [](mainpc # "serving" => ctxDone)
    /\ [](mainpc = "closed" => Returned)
    /\ [][mainpc = "closed" => \A w \in Workers : ~CatalogCall(w)]_vars

====
